---------------------------- MODULE Spec2Model ----------------------------
(***************************************************************************)
(* RotatableFileWriter (package rotate): an io.Writer over one named file  *)
(* that checks, on every Write, whether the file at the path is still the  *)
(* file it holds open, and reopens the path when it is not.                *)
(*                                                                         *)
(* Two implementations are modelled, selected by impl:                     *)
(*   "rotate"  src/rotate.go          (os.FileInfo + os.SameFile)          *)
(*   "inode"   src/unnamed/part_000   (inode number from syscall.Stat_t)   *)
(* The constructor called by src/rotate_test.go takes two more arguments   *)
(* (retries, create) than the constructor in src/rotate.go; that part is   *)
(* modelled from spec.md section 4.1.2 (OpenFlagCreate, ShouldRetry) and   *)
(* coincides with src/rotate.go for create = TRUE, retries = 0.            *)
(*                                                                         *)
(* The file system is one directory with the target path and one           *)
(* rotated-away path.  A file is an id 1..MaxFiles (its identity: device   *)
(* and inode; ids are not reused), with a place and a content.  Every      *)
(* system call of the writer is one step, so that the external actor       *)
(* (rename, remove, create, chmod) can act between any two of them.        *)
(***************************************************************************)
EXTENDS Integers, Sequences, FiniteSets, TLC

\* ------------------------------------------------------------- bounds
\* Each specification bounds the calls on the writer (the constructor
\* included) and the operations of the external actor.
NThreads == 2      \* goroutines calling the writer
MaxFiles == 3      \* files ever created in the directory
MaxRetries == 1    \* the retries argument of the retrying writer
PayloadLen == 2    \* bytes of one Write call
MaxCalls == 4      \* Spec, SpecLive: calls
MaxExt == 1        \* Spec, SpecLive: external operations
MaxCallsRace == 2  \* SpecRace: calls
MaxExtRace == 2    \* SpecRace: external operations
MaxCallsConc == 3  \* SpecConc: calls
MaxExtConc == 1    \* SpecConc: external operations
MaxCallsRetry == 2 \* SpecRetry: calls
MaxExtRetry == 3   \* SpecRetry: external operations

Threads == 1..NThreads
FileIds == 1..MaxFiles

\* The nil *os.FileInfo (rotate.go:102, :37); 0 is a pointer to a nil interface.
NilPtr == -1

VARIABLES
    impl, create, retries,      \* which source file; constructor arguments
    place, content, denied, dirOk, made,   \* the file system
    file, fclosed, fileInfo, inode, mu,    \* the RotatableFileWriter struct
    fds,                        \* open descriptors the writer's opens returned
    pc, lab, cur,               \* each goroutine: position, its call, currentFileInfo
    calls, extLog               \* history: every call, every external operation

cfgVars == <<impl, create, retries>>
fsVars == <<place, content, denied, dirOk, made>>
wVars == <<file, fclosed, fileInfo, inode, fds>>
thVars == <<pc, lab, cur>>
vars == <<impl, create, retries, place, content, denied, dirOk, made,
          file, fclosed, fileInfo, inode, mu, fds, pc, lab, cur, calls, extLog>>

\* ------------------------------------------------------- the file system
\* The file at the target path, 0 when there is none.
PathFile == IF \E f \in FileIds : place[f] = "path"
            THEN CHOOSE f \in FileIds : place[f] = "path"
            ELSE 0

NFiles == Cardinality({f \in FileIds : place[f] # "none"})
FreshId == NFiles + 1

\* os.Stat(name): the error, and the identity found.
Stat == IF ~dirOk THEN [err |-> "EACCES", id |-> 0]
        ELSE IF PathFile = 0 THEN [err |-> "ENOENT", id |-> 0]
        ELSE [err |-> "", id |-> PathFile]

\* An open of the path with O_CREATE would succeed.
Openable == dirOk /\ (PathFile = 0 \/ PathFile # denied)

\* The bytes of the Write call with label l.
Payload(l) == [i \in 1..PayloadLen |-> <<l, i>>]

\* ------------------------------------------------------------ history
NewCall(k, over, aft) ==
    [kind |-> k, st |-> "run", n |-> 0, ext |-> FALSE, over |-> over,
     reop |-> "no", tgt |-> 0, pathRet |-> 0, aftClose |-> aft,
     opened |-> 0, openAt |-> 0, tries |-> 0, err |-> "", trail |-> <<>>,
     serr |-> "", seen |-> 0, had |-> 0, oerrs |-> <<>>, canOpen |-> FALSE]

Running == {i \in 1..Len(calls) : calls[i].st = "run"}
Crashed == \E i \in 1..Len(calls) : calls[i].st = "panic"
Constructed == Len(calls) >= 1 /\ calls[1].st = "ok"
CallsReturned == Cardinality({i \in 2..Len(calls) : calls[i].st # "run"})
CloseReturned ==
    \E i \in 1..Len(calls) : calls[i].kind = "Close" /\ calls[i].st # "run"

\* --------------------------------------------------------------- Init
\* The writers: the two sources as they are (always O_CREATE, no retry), and
\* src/rotate.go with the create and retries arguments of rotate_test.go.
Configs ==
    {[impl |-> "rotate", create |-> TRUE, retries |-> 0],
     [impl |-> "inode", create |-> TRUE, retries |-> 0],
     [impl |-> "rotate", create |-> FALSE, retries |-> 0]}

ConfigsRetry ==
    {[impl |-> "rotate", create |-> c, retries |-> MaxRetries] : c \in BOOLEAN}

\* The writer about to be constructed with a configuration of cs, over a
\* path that holds an empty file (pre) or none.
InitOf(cs, pres) ==
    /\ \E c \in cs : impl = c.impl /\ create = c.create /\ retries = c.retries
    /\ \E pre \in pres :
          place = [f \in FileIds |-> IF pre /\ f = 1 THEN "path" ELSE "none"]
    /\ content = [f \in FileIds |-> <<>>]
    /\ denied = 0
    /\ dirOk = TRUE
    /\ made = {}
    /\ file = 0
    /\ fclosed = FALSE
    /\ fileInfo = NilPtr
    /\ inode = 0
    /\ mu = 0
    /\ fds = 0
    /\ pc = [t \in Threads |-> IF t = 1 THEN "open" ELSE "idle"]
    /\ lab = [t \in Threads |-> IF t = 1 THEN 1 ELSE 0]
    /\ cur = [t \in Threads |-> 0]
    /\ calls = <<NewCall("New", FALSE, FALSE)>>
    /\ extLog = <<>>

Init == InitOf(Configs, BOOLEAN)


\* ------------------------------------------------- bookkeeping of a step
Me(t) == calls[lab[t]]

\* The call of goroutine t returns: its record is closed, its local
\* currentFileInfo gone, the mutex released (Write: deferred Unlock; Reopen,
\* Close: Unlock before return; the constructor holds no lock).
Done(t, rec, st, err) ==
    /\ calls' = [calls EXCEPT ![lab[t]] =
                    [rec EXCEPT !.st = st, !.err = err, !.pathRet = PathFile',
                                !.canOpen = Openable']]
    /\ pc' = [pc EXCEPT ![t] = "idle"]
    /\ lab' = [lab EXCEPT ![t] = 0]
    /\ cur' = [cur EXCEPT ![t] = 0]
    /\ mu' = IF rec.kind = "New" THEN mu ELSE 0

\* The call of goroutine t goes on at position p.
Goto(t, rec, p) ==
    /\ calls' = [calls EXCEPT ![lab[t]] = rec]
    /\ pc' = [pc EXCEPT ![t] = p]
    /\ UNCHANGED <<lab, mu, cur>>

\* A nil-pointer dereference: the process dies.
Panic(t, rec) ==
    /\ calls' = [calls EXCEPT ![lab[t]] = [rec EXCEPT !.st = "panic"]]
    /\ UNCHANGED <<pc, lab, mu, cur>>

\* ------------------------------------------------------ the writer's calls
\* A goroutine calls Write, Reopen or Close on the constructed writer (the
\* goroutines are interchangeable: the lowest idle one makes the call).
Call(t, k) ==
    /\ Constructed /\ ~Crashed
    /\ pc[t] = "idle"
    /\ \A u \in Threads : u < t => pc[u] # "idle"
    /\ calls' = Append(calls, NewCall(k, Running # {}, CloseReturned))
    /\ lab' = [lab EXCEPT ![t] = Len(calls) + 1]
    /\ pc' = [pc EXCEPT ![t] = "lock"]
    /\ UNCHANGED <<cfgVars, fsVars, wVars, mu, cur, extLog>>

\* Mutant: Lock that never blocks.
MutexNeverHeld == TRUE

\* sync.Mutex: Lock blocks while another goroutine holds the mutex.
MutexFree == mu = 0

\* Mutant: Reopen runs the identity check of Write first.
EntryReopenChecks(k) ==
    CASE k = "Write" -> "stat"
      [] k = "Reopen" -> "stat"
      [] OTHER -> "close"

\* Where a call goes once it holds the mutex: Write to its stat of the path
\* (rotate.go:72), Reopen straight into reopen (rotate.go:60), Close to the
\* close (rotate.go:26).
Entry(k) ==
    CASE k = "Write" -> "stat"
      [] k = "Reopen" -> "open"
      [] OTHER -> "close"

\* f.Lock() at the head of Write, Reopen and Close.
Lock(t) ==
    /\ ~Crashed
    /\ pc[t] = "lock"
    /\ MutexFree
    /\ mu' = t
    /\ pc' = [pc EXCEPT ![t] = Entry(Me(t).kind)]
    /\ UNCHANGED <<cfgVars, fsVars, wVars, lab, cur, calls, extLog>>

\* Mutant: the two FileInfo values compared as pointers, never equal.
SameFileByPointer(a, b) == FALSE

\* os.SameFile(fi1, fi2): false when either is not a *fileStat (a nil
\* interface), else device and inode are compared.
SameFile(a, b) == a # 0 /\ b # 0 /\ a = b

\* Mutant: a failed stat of the path read as "nothing changed".
DetectMissingUnchanged(s) ==
    IF s.err # "" THEN "write"
    ELSE IF impl = "rotate"
         THEN IF fileInfo = NilPtr THEN "panic"
              ELSE IF fileInfo = s.id THEN "write" ELSE "reopen"
    ELSE IF inode # s.id THEN "reopen" ELSE "write"

\* Write's rotation check on the result s of the stat of the path:
\* rotate.go:72-82, part_000:29-36,88.
Detect(s) ==
    IF impl = "rotate"
    THEN IF s.err = "EACCES" THEN "err"
         ELSE IF fileInfo = NilPtr THEN "panic"
         ELSE IF SameFile(fileInfo, s.id) THEN "write" ELSE "reopen"
    ELSE IF inode # s.id THEN "reopen" ELSE "write"

\* Write, up to the decision whether to reopen.
WStat(t) ==
    /\ ~Crashed
    /\ pc[t] = "stat"
    /\ UNCHANGED <<cfgVars, fsVars, wVars, extLog>>
    /\ LET s == Stat
           d == Detect(s)
           rec == [Me(t) EXCEPT !.trail = Append(@, "detect"), !.serr = s.err,
                                !.seen = s.id, !.had = file]
       IN  CASE d = "err" -> Done(t, rec, "err", s.err)
             [] d = "panic" -> Panic(t, rec)
             [] OTHER ->
                  /\ calls' = [calls EXCEPT ![lab[t]] = rec]
                  /\ cur' = [cur EXCEPT ![t] = s.id]
                  /\ pc' = [pc EXCEPT ![t] = IF d = "reopen" THEN "open" ELSE "write"]
                  /\ UNCHANGED <<lab, mu>>

\* --------------------------------------------------- the reopen sequence
\* Mutant: os.O_CREATE whatever the create argument.
AlwaysCreate == TRUE

\* Mutant: every open failure is retried while the retry budget lasts.
RetryAnyError(err, tried) == tried <= retries

\* Mutant: no open failure is retried.
NeverRetry(err, tried) == FALSE

\* Whether the open may create the file.  rotate.go:40 and part_000:56 always
\* pass os.O_CREATE; the constructor of rotate_test.go:37,151 takes a create
\* argument (spec.md 4.1.2 step 2: create if absent only if selfCreate).
OpenFlagCreate == create

\* spec.md 4.1.2 step 3: a permission-class open failure is retried while the
\* retry budget lasts; any other failure is not.
ShouldRetry(err, tried) == err = "EACCES" /\ tried <= retries

\* Mutant: the open without os.O_CREATE.
OpenNoCreate ==
    IF ~dirOk THEN [err |-> "EACCES", id |-> 0, new |-> FALSE]
    ELSE IF PathFile = 0 THEN [err |-> "ENOENT", id |-> 0, new |-> FALSE]
    ELSE IF PathFile = denied THEN [err |-> "EACCES", id |-> 0, new |-> FALSE]
    ELSE [err |-> "", id |-> PathFile, new |-> FALSE]

\* os.OpenFile(f.name, O_WRONLY|O_APPEND[|O_CREATE], f.mode): the error, the
\* file opened, and whether it was created.
Open ==
    IF ~dirOk THEN [err |-> "EACCES", id |-> 0, new |-> FALSE]
    ELSE IF PathFile = 0
         THEN IF OpenFlagCreate
              THEN [err |-> "", id |-> FreshId, new |-> TRUE]
              ELSE [err |-> "ENOENT", id |-> 0, new |-> FALSE]
    ELSE IF PathFile = denied THEN [err |-> "EACCES", id |-> 0, new |-> FALSE]
    ELSE [err |-> "", id |-> PathFile, new |-> FALSE]

\* Mutant: Write goes on to the write although reopen returned an error.
OnReopenErrIgnored(t, rec, err) ==
    IF rec.kind = "Write"
    THEN Goto(t, [rec EXCEPT !.reop = "fail"], "write")
    ELSE Done(t, [rec EXCEPT !.reop = "fail"], "err", err)

\* reopen returned err to its caller: Write returns 0 and err (rotate.go:84-86,
\* part_000:90-92), Reopen returns err (rotate.go:60-63), the constructor
\* returns nil and err (rotate.go:105-108).
OnReopenErr(t, rec, err) == Done(t, [rec EXCEPT !.reop = "fail"], "err", err)

\* reopen, first half (rotate.go:34-45, part_000:50-61): close and forget the
\* handle held, open the path.
ROpen(t) ==
    /\ ~Crashed
    /\ pc[t] = "open"
    /\ UNCHANGED <<cfgVars, content, denied, dirOk, extLog>>
    /\ LET o == Open
           tried == Me(t).tries + 1
           rec == [Me(t) EXCEPT !.tries = tried, !.opened = o.id,
                                !.openAt = Len(extLog), !.oerrs = Append(@, o.err),
                                !.trail = IF tried = 1 THEN Append(@, "reopen") ELSE @]
       IN  /\ o.new => FreshId <= MaxFiles
           /\ place' = IF o.new THEN [place EXCEPT ![o.id] = "path"] ELSE place
           /\ made' = IF o.new THEN made \cup {o.id} ELSE made
           /\ file' = o.id
           /\ fclosed' = FALSE
           /\ fds' = fds - (IF file # 0 /\ ~fclosed THEN 1 ELSE 0)
                         + (IF o.err = "" THEN 1 ELSE 0)
           /\ fileInfo' = IF file # 0 THEN NilPtr ELSE fileInfo
           /\ inode' = IF file # 0 THEN 0 ELSE inode
           /\ CASE o.err = "" -> Goto(t, rec, "restat")
                [] o.err # "" /\ ShouldRetry(o.err, tried) -> Goto(t, rec, "open")
                [] OTHER -> OnReopenErr(t, rec, o.err)

\* reopen, second half (rotate.go:47-54, part_000:63-70), and what Write does
\* with the identity when reopen returns nil (rotate.go:88).
RStat(t) ==
    /\ ~Crashed
    /\ pc[t] = "restat"
    /\ UNCHANGED <<cfgVars, fsVars, file, fclosed, fds, extLog>>
    /\ LET s == Stat
           w == Me(t).kind = "Write"
       IN  IF s.err # ""
           THEN /\ UNCHANGED <<fileInfo, inode>>
                /\ OnReopenErr(t, Me(t), s.err)
           ELSE /\ fileInfo' = IF impl # "rotate" THEN fileInfo
                               ELSE IF w THEN cur[t] ELSE s.id
                /\ inode' = IF impl = "inode" THEN s.id ELSE inode
                /\ IF w
                   THEN Goto(t, [Me(t) EXCEPT !.reop = "ok"],
                             IF impl = "inode" THEN "stat2" ELSE "write")
                   ELSE Done(t, [Me(t) EXCEPT !.reop = "ok"], "ok", "")

\* part_000:94-99: Write queries the inode once more after reopen.
WStat2(t) ==
    /\ ~Crashed
    /\ pc[t] = "stat2"
    /\ UNCHANGED <<cfgVars, fsVars, file, fclosed, fileInfo, fds, extLog>>
    /\ LET s == Stat
       IN  IF s.err # ""
           THEN /\ UNCHANGED inode
                /\ Done(t, Me(t), "err", s.err)
           ELSE /\ inode' = s.id
                /\ Goto(t, Me(t), "write")

\* --------------------------------------------------------- write, close
\* Mutant: a failed write is answered by reopening and writing again.
OnWriteErrReopens(t, rec, err) == Goto(t, rec, "open")

\* f.file.Write(p) failed: Write returns its count and error
\* (rotate.go:91-93, part_000:102-104).
OnWriteErr(t, rec, err) == Done(t, rec, "err", err)

\* f.file.Write(p) (rotate.go:91-93, part_000:102-104): os.File.Write fails on
\* a nil or closed File, else appends until all of p is written; one write
\* system call may take only a part.
WWrite(t) ==
    /\ ~Crashed
    /\ pc[t] = "write"
    /\ UNCHANGED <<cfgVars, place, denied, dirOk, made, wVars, extLog>>
    /\ IF file = 0 \/ fclosed
       THEN /\ UNCHANGED content
            /\ OnWriteErr(t, [Me(t) EXCEPT !.trail = Append(@, "write")],
                          IF file = 0 THEN "EINVAL" ELSE "ECLOSED")
       ELSE \E k \in 1..(PayloadLen - Me(t).n) :
               LET n2 == Me(t).n + k
                   rec == [Me(t) EXCEPT !.n = n2, !.tgt = file,
                              !.trail = IF Me(t).n = 0 THEN Append(@, "write") ELSE @]
               IN  /\ content' = [content EXCEPT ![file] =
                          @ \o SubSeq(Payload(lab[t]), Me(t).n + 1, n2)]
                   /\ IF n2 = PayloadLen
                      THEN Done(t, rec, "ok", "")
                      ELSE Goto(t, rec, "write")

\* Close (rotate.go:24-30, part_000:39-45): closes the File, keeps the pointer.
CloseFile(t) ==
    /\ ~Crashed
    /\ pc[t] = "close"
    /\ UNCHANGED <<cfgVars, fsVars, file, fileInfo, inode, extLog>>
    /\ IF file = 0 \/ fclosed
       THEN /\ UNCHANGED <<fclosed, fds>>
            /\ Done(t, Me(t), "err", IF file = 0 THEN "EINVAL" ELSE "ECLOSED")
       ELSE /\ fclosed' = TRUE
            /\ fds' = fds - 1
            /\ Done(t, Me(t), "ok", "")

\* ---------------------------------------------------- the external actor
\* An external operation is logged with the number of calls (after the
\* constructor) that had returned and whether a call was in flight; it marks
\* the calls in flight.
Logged(op) ==
    /\ ~Crashed
    /\ extLog' = Append(extLog, [op |-> op, k |-> CallsReturned, mid |-> Running # {}])
    /\ calls' = [i \in 1..Len(calls) |->
                    IF calls[i].st = "run" THEN [calls[i] EXCEPT !.ext = TRUE]
                    ELSE calls[i]]
    /\ UNCHANGED <<cfgVars, wVars, mu, thVars, made>>

\* os.Rename(logPath, rotatedPath) (rotate_test.go:47): replaces a file
\* already at the rotated path.
ExtRename ==
    /\ PathFile # 0
    /\ Logged("rename")
    /\ place' = [f \in FileIds |->
                    IF place[f] = "path" THEN "rotated"
                    ELSE IF place[f] = "rotated" THEN "gone" ELSE place[f]]
    /\ UNCHANGED <<content, denied, dirOk>>

\* os.Remove(logPath) (rotate_test.go:105).
ExtRemove ==
    /\ PathFile # 0
    /\ Logged("remove")
    /\ place' = [place EXCEPT ![PathFile] = "gone"]
    /\ UNCHANGED <<content, denied, dirOk>>

\* The log manager creates the next file, writable (0666) or not yet (0466)
\* (rotate_test.go:142,171).
ExtCreate(writable) ==
    /\ PathFile = 0
    /\ FreshId <= MaxFiles
    /\ Logged(IF writable THEN "create" ELSE "create0466")
    /\ place' = [place EXCEPT ![FreshId] = "path"]
    /\ denied' = IF writable THEN denied ELSE FreshId
    /\ UNCHANGED <<content, dirOk>>

\* os.Chmod(logPath, 0666) (rotate_test.go:192).
ExtChmod ==
    /\ denied # 0 /\ PathFile = denied
    /\ Logged("chmod")
    /\ denied' = 0
    /\ UNCHANGED <<place, content, dirOk>>

\* The directory loses or regains search permission: stat and open of the
\* path fail with a permission error meanwhile.
ExtDir ==
    /\ Logged(IF dirOk THEN "dirOff" ELSE "dirOn")
    /\ dirOk' = ~dirOk
    /\ UNCHANGED <<place, content, denied>>

\* The external actor, with at most b operations.
ExtOp(b) ==
    /\ Len(extLog) < b
    /\ \/ ExtRename
       \/ ExtRemove
       \/ \E w \in BOOLEAN : ExtCreate(w)
       \/ ExtChmod

\* A step of a call in progress.
Step(t) ==
    \/ Lock(t)
    \/ WStat(t)
    \/ ROpen(t)
    \/ RStat(t)
    \/ WStat2(t)
    \/ WWrite(t)
    \/ CloseFile(t)

Kinds == {"Write", "Reopen", "Close"}

\* Calls one after another, each made when the one before has returned.
SeqCall(maxCalls) ==
    \E t \in Threads : \E k \in Kinds :
        Len(calls) < maxCalls /\ Running = {} /\ Call(t, k)

\* Calls made concurrently by the goroutines.
ConcCall(maxCalls) ==
    \E t \in Threads : \E k \in Kinds : Len(calls) < maxCalls /\ Call(t, k)

\* Sequential calls, the external actor acting between and during them.
Next ==
    \/ SeqCall(MaxCalls)
    \/ \E t \in Threads : Step(t)
    \/ ExtOp(MaxExt)
    \/ Len(extLog) < MaxExt /\ ExtDir

Spec == Init /\ [][Next]_vars

\* Fewer calls, more external operations: the external actor racing with
\* the steps of a call.
NextRace ==
    \/ SeqCall(MaxCallsRace)
    \/ \E t \in Threads : Step(t)
    \/ ExtOp(MaxExtRace)
    \/ Len(extLog) < MaxExtRace /\ ExtDir

SpecRace == Init /\ [][NextRace]_vars

\* The same with a fair scheduler, a fair mutex and system calls that return:
\* a goroutine that can take a step takes it.
Fairness == \A t \in Threads : WF_vars(Step(t)) /\ SF_vars(Lock(t))

SpecLive == Init /\ [][Next]_vars /\ Fairness

\* Concurrent calls, on the writers of the two sources, constructed as in
\* rotate_test.go over a path that holds no file yet.
InitConc == InitOf({c \in Configs : c.create}, {FALSE})

NextConc ==
    \/ ConcCall(MaxCallsConc)
    \/ \E t \in Threads : Step(t)
    \/ ExtOp(MaxExtConc)

SpecConc == InitConc /\ [][NextConc]_vars

\* The writer of rotate_test.go:151: retries > 0, over an existing file.
InitRetry == InitOf(ConfigsRetry, {TRUE})

NextRetry ==
    \/ SeqCall(MaxCallsRetry)
    \/ \E t \in Threads :
          Lock(t) \/ WStat(t) \/ ROpen(t) \/ RStat(t) \/ WWrite(t) \/ CloseFile(t)
    \/ ExtOp(MaxExtRetry)

SpecRetry == InitRetry /\ [][NextRetry]_vars

TypeOK ==
    /\ file \in 0..MaxFiles
    /\ fileInfo \in {NilPtr} \cup (0..MaxFiles)
    /\ inode \in 0..MaxFiles
    /\ mu \in 0..NThreads
    /\ fds \in 0..2
    /\ Cardinality({f \in FileIds : place[f] = "path"}) <= 1

\* ====================================================================
\* Properties
\* ====================================================================
\* What a plain append-mode handle holds after the Write calls lo..hi.
RECURSIVE Plain(_, _)
Plain(lo, hi) == IF hi < lo THEN <<>> ELSE Plain(lo, hi - 1) \o Payload(hi)

\* Every call after the constructor is a Write.
OnlyWrites == \A i \in 2..Len(calls) : calls[i].kind = "Write"

\* The external actor acted exactly once, with op, between two calls, after
\* at least one Write had returned.
OneExt(op) ==
    /\ Len(extLog) = 1
    /\ extLog[1].op = op
    /\ ~extLog[1].mid
    /\ extLog[1].k > 0

\* The case of C1 and C2: sequential Writes on a constructed writer that may
\* create the file, one external op after the k-th Write (0 < k < N), all
\* N Writes over.
RotatedRun(op) ==
    /\ create /\ Constructed /\ OnlyWrites
    /\ Running = {}
    /\ OneExt(op)
    /\ extLog[1].k < Len(calls) - 1

\* C1 Continuity under rename: N sequential Writes with the path renamed away
\* after the k-th leave exactly writes 1..k in the renamed-away file and
\* exactly writes k+1..N in the file at the path; nothing lost or duplicated.
C1_RenameContinuity ==
    RotatedRun("rename") =>
        LET k == extLog[1].k
        IN  /\ \A i \in 2..Len(calls) : calls[i].st = "ok" /\ calls[i].n = PayloadLen
            /\ \E r \in FileIds : place[r] = "rotated" /\ content[r] = Plain(2, k + 1)
            /\ PathFile # 0 /\ content[PathFile] = Plain(k + 2, Len(calls))
            /\ \A f \in FileIds : place[f] \notin {"rotated", "path"} => content[f] = <<>>

C1_Witness ==
    /\ RotatedRun("rename")
    /\ impl = "rotate" /\ retries = 0
    /\ Len(calls) = 4 /\ extLog[1].k = 1

\* C2 Continuity under delete: N sequential Writes with the path deleted after
\* the k-th: every later Write succeeds, the writer creates a fresh file at
\* the path, and it holds exactly writes k+1..N.
C2_DeleteContinuity ==
    RotatedRun("remove") =>
        LET k == extLog[1].k
        IN  /\ \A i \in 2..Len(calls) : calls[i].st = "ok" /\ calls[i].n = PayloadLen
            /\ PathFile # 0 /\ PathFile \in made
            /\ content[PathFile] = Plain(k + 2, Len(calls))
            /\ \E g \in FileIds : /\ place[g] = "gone" /\ g # PathFile
                                  /\ content[g] = Plain(2, k + 1)

C2_Witness ==
    /\ RotatedRun("remove")
    /\ impl = "rotate" /\ retries = 0
    /\ Len(calls) = 4 /\ extLog[1].k = 1
    /\ PathFile \in made

\* C10 No-op stability: with no external operation, sequential Writes never
\* reopen after construction, and leave one file at the path holding the
\* payloads in call order, as a plain append-mode handle would.
C10_NoOpStability ==
    (Constructed /\ OnlyWrites /\ extLog = <<>>) =>
        /\ \A i \in 2..Len(calls) :
              /\ calls[i].reop = "no" /\ calls[i].tries = 0
              /\ calls[i].st \in {"run", "ok"}
        /\ Running = {} =>
              /\ PathFile # 0 /\ content[PathFile] = Plain(2, Len(calls))
              /\ \A f \in FileIds : f # PathFile => content[f] = <<>>

C10_Witness ==
    /\ Constructed /\ OnlyWrites /\ extLog = <<>>
    /\ Running = {} /\ Len(calls) = MaxCalls
    /\ content[PathFile] = Plain(2, MaxCalls)

\* The constructor of src/rotate.go and part_000: always O_CREATE, no retry.
AsInSource == create /\ retries = 0

\* C3 No write to a stale handle: a Write during which no external operation
\* happens and that returns without error has appended its bytes to the file
\* at the path when it returns, whatever happened before the call.
C3_NoStaleWrite ==
    AsInSource =>
        \A i \in 2..Len(calls) :
            (calls[i].kind = "Write" /\ calls[i].st = "ok" /\ ~calls[i].ext)
                => calls[i].tgt = calls[i].pathRet

\* C7 Writes after Close fail cleanly: a Write called after Close has returned
\* returns an error and appends nothing, rotated path or not.
C7_WriteAfterCloseFails ==
    AsInSource =>
        \A i \in 2..Len(calls) :
            (calls[i].kind = "Write" /\ calls[i].aftClose /\ calls[i].st # "run")
                => calls[i].st = "err" /\ calls[i].n = 0 /\ calls[i].tgt = 0

\* No byte of call i is in any file.
NoByteOf(i) ==
    \A f \in FileIds : \A q \in 1..Len(content[f]) : content[f][q][1] # i

\* C8 Reopen failure aborts the write: a Write whose reopen sequence failed
\* returns 0 bytes and the error, and none of its bytes is in any file.
C8_ReopenFailureAborts ==
    \A i \in 2..Len(calls) :
        (calls[i].kind = "Write" /\ calls[i].reop = "fail")
            => /\ calls[i].st = "err" /\ calls[i].err # ""
               /\ calls[i].n = 0 /\ calls[i].tgt = 0
               /\ NoByteOf(i)

C8_Witness ==
    /\ AsInSource
    /\ \E i \in 2..Len(calls) :
          /\ calls[i].kind = "Write" /\ calls[i].reop = "fail"
          /\ calls[i].opened # 0 /\ calls[i].st = "err"

\* What the Write calls up to call i appended to file f, in call order.
RECURSIVE Kept(_, _)
Kept(f, i) ==
    IF i < 2 THEN <<>>
    ELSE Kept(f, i - 1) \o
         (IF calls[i].kind = "Write" /\ calls[i].tgt = f
          THEN SubSeq(Payload(i), 1, calls[i].n) ELSE <<>>)

\* No external operation from the invocation of call i to the return of
\* call i + 1.
Undisturbed(i) ==
    /\ ~calls[i].ext /\ ~calls[i + 1].ext
    /\ \A e \in 1..Len(extLog) : ~(extLog[e].k = i - 1 /\ ~extLog[e].mid)

\* C9 Explicit Reopen: Reopen always runs the reopen sequence, without the
\* identity check and without writing; when it returns nil the handle is the
\* file it opened at the path, the bytes of that file are kept, and a
\* following undisturbed Write appends after them.
C9_ExplicitReopen ==
    \A i \in 2..Len(calls) :
        (calls[i].kind = "Reopen" /\ calls[i].st # "run") =>
            /\ calls[i].tries >= 1 /\ calls[i].tgt = 0 /\ calls[i].n = 0
            /\ calls[i].st = "ok" =>
                  /\ calls[i].opened # 0 /\ calls[i].reop = "ok"
                  /\ ~calls[i].ext => calls[i].opened = calls[i].pathRet
                  /\ (i = Len(calls)) => file = calls[i].opened /\ ~fclosed
                  /\ (i < Len(calls) /\ calls[i + 1].kind = "Write"
                        /\ calls[i + 1].st # "run" /\ Undisturbed(i)) =>
                        /\ calls[i + 1].st = "ok"
                        /\ calls[i + 1].tgt = calls[i].opened
                        /\ LET f == calls[i].opened
                                 old == Kept(f, i)
                           IN  /\ Len(content[f]) >= Len(old) + PayloadLen
                               /\ SubSeq(content[f], 1, Len(old) + PayloadLen)
                                     = old \o Payload(i + 1)

C9_Witness ==
    /\ AsInSource
    /\ Len(calls) = 4 /\ Running = {}
    /\ calls[2].kind = "Write" /\ calls[3].kind = "Reopen" /\ calls[4].kind = "Write"
    /\ calls[3].st = "ok" /\ Undisturbed(3) /\ calls[4].st = "ok"
    /\ content[calls[3].opened] = Payload(2) \o Payload(4)

\* The bytes of one call lie together in file f: a byte that is not the first
\* of its payload follows the one before it, a byte that is not the last is
\* followed by the next one, or ends the file while its call is still writing.
Contiguous(f) ==
    LET c == content[f]
    IN  \A q \in 1..Len(c) :
           LET l == c[q][1]
               b == c[q][2]
           IN  /\ b > 1 => q > 1 /\ c[q - 1] = <<l, b - 1>>
               /\ b < PayloadLen =>
                     IF q < Len(c) THEN c[q + 1] = <<l, b + 1>>
                     ELSE calls[l].st = "run"

\* No byte is in two places.
NoDuplicate ==
    \A f, g \in FileIds : \A q \in 1..Len(content[f]) : \A r \in 1..Len(content[g]) :
        content[f][q] = content[g][r] => f = g /\ q = r

\* C4 Mutual exclusion of write bytes: with goroutines calling concurrently,
\* the bytes of each Write lie together in the file they land in, no byte
\* twice, and every Write that returned without error is there whole.
C4_WritesNotInterleaved ==
    /\ \A f \in FileIds : Contiguous(f)
    /\ NoDuplicate
    /\ \A i \in 2..Len(calls) :
          (calls[i].kind = "Write" /\ calls[i].st = "ok") =>
              /\ calls[i].tgt # 0 /\ calls[i].n = PayloadLen
              /\ \E q \in 1..Len(content[calls[i].tgt]) :
                    content[calls[i].tgt][q] = <<i, 1>>

C4_Witness ==
    \E i, j \in 2..Len(calls) :
        /\ i < j /\ calls[j].over
        /\ calls[i].kind = "Write" /\ calls[j].kind = "Write"
        /\ calls[i].st = "ok" /\ calls[j].st = "ok"
        /\ calls[i].tgt = calls[j].tgt
        /\ content[calls[i].tgt] = Payload(j) \o Payload(i)

LockReleased == \A t \in Threads : mu = t => pc[t] \notin {"idle", "lock"}

\* C11 Termination and lock release: with a fair mutex and system calls that
\* return, every Write, Reopen and Close call made eventually returns (ok or
\* error), and a call that has returned does not hold the mutex.
C11_TerminationLockRelease ==
    AsInSource =>
        /\ []LockReleased
        /\ \A i \in 2..MaxCalls :
              (Len(calls) >= i) ~> (Len(calls) >= i /\ calls[i].st \in {"ok", "err"})

\* The identity the writer has stored: the file *f.fileInfo describes
\* (rotate.go; 0 when the pointer is nil or points to a nil FileInfo), f.inode
\* (part_000; 0 after a reset).
Identity == IF impl = "rotate" THEN (IF fileInfo = NilPtr THEN 0 ELSE fileInfo)
            ELSE inode

\* The writer as other callers see it: constructed, no call in progress.
AtRest == Constructed /\ Running = {} /\ mu = 0 /\ ~Crashed

\* C12 Identity reflects the handle: whenever no call holds the lock and the
\* handle is present, the stored identity is the identity of the file the
\* handle refers to, whatever the external actor did during the calls.
C12_IdentityReflectsHandle ==
    AsInSource => ((AtRest /\ file # 0) => Identity = file)

\* C13 Handle and identity are established together: whenever no call holds
\* the lock, handle and identity are both absent or both present; a reopen
\* whose open succeeded and whose identity query failed has closed the handle
\* it opened and left both absent.
C13_EstablishedTogether ==
    AsInSource =>
        /\ AtRest => ((file = 0) <=> (Identity = 0))
        /\ (AtRest /\ calls[Len(calls)].reop = "fail" /\ calls[Len(calls)].opened # 0)
              => file = 0 /\ Identity = 0 /\ fds = 0

\* The reopen sequence is the second step of the call, right after the
\* detection.
ReopenedFirst(c) == Len(c.trail) >= 2 /\ c.trail[2] = "reopen"

\* C14 A missing path always forces a reopen: every Write whose identity query
\* found no file at the path goes on (no crash), runs the reopen sequence
\* before any write, whatever identity is stored, and fails only if the
\* reopen sequence or the write after it fails.
C14_MissingPathForcesReopen ==
    AsInSource =>
        \A i \in 2..Len(calls) :
            (calls[i].kind = "Write" /\ calls[i].serr = "ENOENT") =>
                /\ calls[i].st # "panic"
                /\ Len(calls[i].trail) >= 2 => ReopenedFirst(calls[i])
                /\ calls[i].st \in {"ok", "err"} => ReopenedFirst(calls[i])

\* The steps a Write call may have taken so far, in order.
WriteTrails ==
    {<<>>, <<"detect">>, <<"detect", "write">>, <<"detect", "reopen">>,
     <<"detect", "reopen", "write">>}

\* The number of bytes of call i in the files.
Landed(i) ==
    Cardinality({x \in FileIds \X (1..(MaxCalls * PayloadLen)) :
                    x[2] <= Len(content[x[1]]) /\ content[x[1]][x[2]][1] = i})

\* C15, in every state: a Write call detects at most once, reopens at most
\* once, both before its one write; the count it returns is the number of its
\* bytes in the file written, and a failed write returns the write's error
\* with no byte written.
C15_OncePerCall ==
    \A i \in 2..Len(calls) :
        calls[i].kind = "Write" =>
            /\ calls[i].trail \in WriteTrails
            /\ Landed(i) = calls[i].n
            /\ calls[i].n > 0 => Landed(i) = Len(SelectSeq(content[calls[i].tgt],
                                                LAMBDA b : b[1] = i))
            /\ (calls[i].st \in {"ok", "err"} /\ calls[i].trail # <<>>
                    /\ calls[i].trail[Len(calls[i].trail)] = "write") =>
                  \/ calls[i].st = "ok" /\ calls[i].n = PayloadLen
                  \/ /\ calls[i].st = "err" /\ calls[i].n = 0
                     /\ calls[i].err \in {"EINVAL", "ECLOSED"}

\* C15, in every step: while a call is at its write, handle and identity do
\* not change, whether the write fails or not.
C15_WriteKeepsHandle ==
    (\E t \in Threads : pc[t] = "write") => UNCHANGED <<file, fclosed, fileInfo, inode, fds>>

\* C15 One detection, one write per call: every Write call performs the
\* rotation detection at most once and at most one reopen, both before its
\* write; a call that reaches the write issues one write on the current
\* handle and returns its count and error unmodified, with no retry and no
\* change to handle or identity caused by the write's failure.
C15_OneDetectionOneWrite ==
    []C15_OncePerCall /\ [][C15_WriteKeepsHandle]_vars

C15_Witness ==
    /\ AsInSource /\ Running = {} /\ Len(calls) = 4
    /\ calls[2].kind = "Write" /\ calls[2].st = "ok"
    /\ calls[2].trail = <<"detect", "reopen", "write">>
    /\ calls[3].kind = "Close" /\ calls[3].st = "ok"
    /\ calls[4].kind = "Write" /\ calls[4].st = "err" /\ calls[4].err = "ECLOSED"
    /\ calls[4].trail = <<"detect", "write">>

\* Goroutine t is inside a call: past the Lock, not yet returned.
InCall(t) == pc[t] \notin {"idle", "lock"}

\* C16 Single critical section: at most one call is between acquiring and
\* releasing the lock at any time, and it is the holder of the mutex; so no
\* open, stat, write or close step of one call happens while another call is
\* at any of its steps.
C16_SingleCriticalSection ==
    /\ \A t, u \in Threads : (InCall(t) /\ InCall(u)) => t = u
    /\ \A t \in Threads : (InCall(t) /\ Me(t).kind # "New") => mu = t
    /\ \A t, u \in Threads :
          (t # u /\ pc[t] \in {"open", "write"}) =>
              pc[u] \notin {"open", "restat", "write", "close"}

C16_Witness ==
    \E t, u \in Threads :
        /\ pc[t] = "write" /\ Me(t).n = 1 /\ mu = t
        /\ pc[u] = "lock" /\ Me(u).kind = "Close"

AfterFailedReopen(i) ==
    \E j \in 2..(i - 1) : calls[j].kind \in {"Reopen", "Write"} /\ calls[j].reop = "fail"

\* C18 No crash after a failed reopen: a Write after a Reopen or Write whose
\* reopen sequence failed does not crash; and when the path can be opened and
\* nothing external happens during the call, it returns without error with
\* its bytes in the file at the path.
C18_NoCrashAfterFailedReopen ==
    AsInSource =>
        \A i \in 3..Len(calls) :
            (calls[i].kind = "Write" /\ AfterFailedReopen(i)) =>
                /\ calls[i].st # "panic"
                /\ (calls[i].st \in {"ok", "err"} /\ ~calls[i].ext /\ calls[i].canOpen) =>
                      /\ calls[i].st = "ok" /\ calls[i].n = PayloadLen
                      /\ calls[i].tgt # 0 /\ calls[i].tgt = calls[i].pathRet

\* C19 No spurious reopen: a Write runs the reopen sequence only if the file
\* found at the path by its identity query (none, or a file) is not the file
\* its handle refers to.
C19_NoSpuriousReopen ==
    AsInSource =>
        \A i \in 2..Len(calls) :
            (calls[i].kind = "Write" /\ calls[i].serr # "EACCES"
                /\ Len(calls[i].trail) >= 2 /\ calls[i].trail[2] = "reopen")
               => (calls[i].seen = 0 \/ calls[i].seen # calls[i].had)

\* C20 No handle leak: the writer's opens never leave more than one
\* descriptor open, and a construction that failed leaves none.
C20_NoHandleLeak ==
    AsInSource =>
        /\ fds <= 1
        /\ calls[1].st = "err" => fds = 0
=============================================================================
